---- MODULE Spec2Model ----
(***************************************************************************)
(* A model of the pdf2text Express server (src/server.js) and of its       *)
(* earlier single-route version (src/unnamed/part_000).                    *)
(*                                                                         *)
(* Every request is an async handler: it runs synchronously up to its      *)
(* first await (axios.get), resumes when the fetch settles and runs up to  *)
(* its second await (pdfParse), and resumes once more when the parse       *)
(* settles.  Each of these stretches is one action.  Text is a tuple of    *)
(* one-character strings, so that trimming, joining and parseInt are       *)
(* computed and not assumed.                                               *)
(***************************************************************************)
EXTENDS Integers, Sequences, FiniteSets, TLC

VARIABLES
    pc,          \* where each request's handler stands: idle, fetching
                 \* (await axios.get), parsing (await pdfParse), done
    req,         \* req.query and the route of each request
    pdfData,     \* the fetched bytes, <<>> before the fetch resolves
    responses,   \* what res.json has sent for each request, in order
    fetchCalls,  \* calls of axios.get
    parseCalls,  \* calls of pdfParse
    visited,     \* the page numbers pdfParse handed to its page renderer
    extracted    \* the page numbers whose getTextContent() was read

vars == <<pc, req, pdfData, responses, fetchCalls, parseCalls, visited, extracted>>

(* ------------------------------ bounds --------------------------------- *)

\* Requests the server may have accepted at the same time.
MaxReqs == 2
\* Pages of the largest document a fetch may return.
MaxPages == 3

ReqIds == 1..MaxReqs

(* ------------------------------- text ---------------------------------- *)

\* String.prototype.trim's white space, as far as the alphabet here goes.
IsSpace(c) == c \in {" ", "\n", "\t"}

RECURSIVE TrimStart(_)
TrimStart(s) ==
    IF s # <<>> /\ IsSpace(Head(s)) THEN TrimStart(Tail(s)) ELSE s

RECURSIVE TrimEnd(_)
TrimEnd(s) ==
    IF s # <<>> /\ IsSpace(s[Len(s)]) THEN TrimEnd(SubSeq(s, 1, Len(s) - 1)) ELSE s

\* extractedText.trim()
Trim(s) == TrimEnd(TrimStart(s))

\* Array.prototype.join(sep) over an array of strings.
RECURSIVE Join(_, _)
Join(strs, sep) ==
    IF strs = <<>> THEN <<>>
    ELSE IF Len(strs) = 1 THEN strs[1]
    ELSE strs[1] \o sep \o Join(Tail(strs), sep)

(* ----------------------------- numbers --------------------------------- *)

\* A JavaScript number that may be NaN: <<>> is NaN, <<n>> is the number n.
NaN == <<>>
IsNaN(x) == x = NaN

IsDigit(c) == c \in {"0", "1", "2", "3", "4", "5", "6", "7", "8", "9"}

DigitVal(c) ==
    CASE c = "0" -> 0 [] c = "1" -> 1 [] c = "2" -> 2 [] c = "3" -> 3
      [] c = "4" -> 4 [] c = "5" -> 5 [] c = "6" -> 6 [] c = "7" -> 7
      [] c = "8" -> 8 [] c = "9" -> 9

\* The value of the longest prefix of digits of s, continuing from acc;
\* parseInt stops at the first character that is not a digit.
RECURSIVE DigitsValue(_, _)
DigitsValue(s, acc) ==
    IF s # <<>> /\ IsDigit(Head(s))
    THEN DigitsValue(Tail(s), 10 * acc + DigitVal(Head(s)))
    ELSE acc

\* parseInt(string) in radix 10 (the alphabet of the requests holds no "x",
\* so no string selects radix 16): leading white space is skipped, one sign
\* is read, and a string with no digit there is NaN.
ParseIntStr(s) ==
    LET t == TrimStart(s)
        neg == t # <<>> /\ Head(t) = "-"
        u == IF t # <<>> /\ Head(t) \in {"-", "+"} THEN Tail(t) ELSE t
    IN  IF u = <<>> \/ ~IsDigit(Head(u)) THEN NaN
        ELSE <<(IF neg THEN -1 ELSE 1) * DigitsValue(u, 0)>>

\* parseInt(req.query.x): a query parameter is <<>> when the request does
\* not carry it (undefined, which parseInt turns into NaN) and <<s>> when
\* it carries the string s.
ParseInt(param) == IF param = <<>> THEN NaN ELSE ParseIntStr(param[1])

\* x || d for a number x: NaN and 0 are falsy.
JsOr(x, d) == IF IsNaN(x) \/ x = <<0>> THEN <<d>> ELSE x

\* The default of max, `parseInt(req.query.max) || 100`.
DefaultMax == 100
\* The default of min, `parseInt(req.query.min) || 1`.
DefaultMin == 1

\* const max = parseInt(req.query.max) || 100
MaxOf(q) == JsOr(ParseInt(q.max), DefaultMax)

\* const min = parseInt(req.query.min) || 1
MinOf(q) == JsOr(ParseInt(q.min), DefaultMin)

\* if (isNaN(max) || max < 1) throw
MaxInvalid(max) == IsNaN(max) \/ max[1] < 1

\* The check of min without its comparison with max.
MinInvalidNoUpperBound(min, max) == IsNaN(min) \/ min[1] < 1

\* if (isNaN(min) || min < 1 || min > max) throw
MinInvalid(min, max) == IsNaN(min) \/ min[1] < 1 \/ min[1] > max[1]

\* The decimal digits of n >= 0, as a request writes a number.
RECURSIVE Digits(_)
Digits(n) ==
    LET d == <<"0", "1", "2", "3", "4", "5", "6", "7", "8", "9">>[(n % 10) + 1]
    IN  IF n < 10 THEN <<d>> ELSE Digits(n \div 10) \o <<d>>

Decimal(n) == IF n < 0 THEN <<"-">> \o Digits(-n) ELSE Digits(n)

(* ---------------------------- documents -------------------------------- *)

\* What axios.get resolves to: the bytes of a document pdf-parse can read,
\* with its pages, or bytes it cannot read.  A page is the array of items
\* of getTextContent(): str, and the line's position transform[5] as y.
Pages ==
    { <<>>,
      << [str |-> <<"a">>, y |-> 1] >>,
      << [str |-> <<"a">>, y |-> 1], [str |-> <<" ", "b">>, y |-> 1] >>,
      << [str |-> <<" ", "c">>, y |-> 2], [str |-> <<"d", " ">>, y |-> 3] >> }

RECURSIVE SeqsUpTo(_, _)
SeqsUpTo(S, n) ==
    IF n = 0 THEN {<<>>}
    ELSE LET shorter == SeqsUpTo(S, n - 1)
         IN  shorter \cup {Append(s, x) : s \in {t \in shorter : Len(t) = n - 1}, x \in S}

Unparsable == [parsable |-> FALSE, pages |-> <<>>]

Docs == {Unparsable} \cup {[parsable |-> TRUE, pages |-> ps] : ps \in SeqsUpTo(Pages, MaxPages)}

\* The documents of the specification with concurrent requests.
SmallDocs ==
    { Unparsable,
      [parsable |-> TRUE,
       pages |-> << << [str |-> <<"a">>, y |-> 1], [str |-> <<" ", "b">>, y |-> 1] >> >>] }

(* ----------------------------- pdf-parse ------------------------------- *)

\* pdf-parse's default render_page: items of one line are appended as they
\* are, an item of another line after a line break (lastY starts undefined,
\* which is falsy like 0).
RECURSIVE RenderFrom(_, _)
RenderFrom(items, lastY) ==
    IF items = <<>> THEN <<>>
    ELSE LET item == Head(items)
         IN  (IF lastY = item.y \/ lastY = 0 THEN item.str ELSE <<"\n">> \o item.str)
                 \o RenderFrom(Tail(items), item.y)

RenderPage(page) == RenderFrom(page, 0)

\* A pagerender that also skips page min.
PagerenderSkipsMin(page, pageNumber, min) ==
    IF pageNumber <= min THEN <<>>
    ELSE Join([i \in 1..Len(page) |-> page[i].str], <<" ">>)

\* A pagerender that skips no page.
PagerenderNoSkip(page, pageNumber, min) ==
    Join([i \in 1..Len(page) |-> page[i].str], <<" ">>)

\* options.pagerender of /api/pdf-text.
Pagerender(page, pageNumber, min) ==
    IF pageNumber < min THEN <<>>
    ELSE Join([i \in 1..Len(page) |-> page[i].str], <<" ">>)

\* pdf-parse's page count: options.max <= 0 means every page, and a max
\* beyond the document stops at its last page.
PageCount(doc, max) ==
    LET counter == IF max <= 0 THEN Len(doc.pages) ELSE max
    IN  IF counter > Len(doc.pages) THEN Len(doc.pages) ELSE counter

\* pdf-parse's loop: ret.text = `${ret.text}\n\n${pageText}`.
RECURSIVE PdfText(_)
PdfText(pageTexts) ==
    IF pageTexts = <<>> THEN <<>>
    ELSE PdfText(SubSeq(pageTexts, 1, Len(pageTexts) - 1))
             \o <<"\n", "\n">> \o pageTexts[Len(pageTexts)]

\* (await pdfParse(pdfData, options)).text with the options of /api/pdf-text.
PdfParseRange(doc, min, max) ==
    PdfText([i \in 1..PageCount(doc, max) |-> Pagerender(doc.pages[i], i, min)])

\* (await pdfParse(pdfData)).text: the default options, max 0 and render_page.
PdfParseAll(doc) ==
    PdfText([i \in 1..PageCount(doc, 0) |-> RenderPage(doc.pages[i])])

(* ----------------------------- requests -------------------------------- *)

PdfTextRoute == "/api/pdf-text"
PdfTextAllRoute == "/api/pdf-text-all"
HealthRoute == "/api/health"
\* /api/pdf-text as src/unnamed/part_000 serves it.
PdfTextRoute0 == "part_000:/api/pdf-text"

ExtractionRoutes == {PdfTextRoute, PdfTextAllRoute, PdfTextRoute0}

NoRequest == [route |-> "none", pdfUrl |-> <<>>, min |-> <<>>, max |-> <<>>]

\* req.query.pdfUrl: absent, empty, or a URL.
PdfUrls == {<<>>, <<"">>, <<"https://x/doc.pdf">>}

PageNumbers == {<<Decimal(n)>> : n \in -1..(MaxPages + 1)}

MaxValues == {<<>>, << <<"a">> >>} \cup PageNumbers

MinValues == MaxValues \cup {<< <<"2", "a">> >>, <<Decimal(DefaultMax + 1)>>}

Queries ==
    [route : ExtractionRoutes, pdfUrl : PdfUrls, min : MinValues, max : MaxValues]

\* The requests of the specification with concurrent requests.
SmallQueries ==
    [route : {PdfTextRoute}, pdfUrl : {<<>>, <<"https://x/doc.pdf">>},
     min : {<<Decimal(1)>>, <<Decimal(2)>>}, max : {<<Decimal(1)>>}]
    \cup [route : {PdfTextAllRoute, PdfTextRoute0},
          pdfUrl : {<<>>, <<"https://x/doc.pdf">>}, min : {<<>>}, max : {<<>>}]

\* A check that takes only an absent pdfUrl for missing.
MissingOnlyUndefined(pdfUrl) == pdfUrl = <<>>

\* !pdfUrl
Missing(pdfUrl) == pdfUrl = <<>> \/ pdfUrl[1] = ""

(* ----------------------------- responses ------------------------------- *)

MissingPdfUrl == [status |-> 400, body |-> [error |-> "Missing pdfUrl parameter"]]

\* A catch that answers with the status of a client error.
FailedAs400(message) ==
    [status |-> 400, body |-> [error |-> "Failed to process PDF", message |-> message]]

Failed(message) ==
    [status |-> 500, body |-> [error |-> "Failed to process PDF", message |-> message]]

Ok(text) == [status |-> 200, body |-> [text |-> text]]

HealthOk == [status |-> 200, body |-> [status |-> "ok"]]

\* The messages of the errors the handlers do not throw themselves.
FetchError == "Request failed"
ParseError == "Invalid PDF structure"

Send(r, response) == responses' = [responses EXCEPT ![r] = Append(@, response)]

\* catch (error) { res.status(500).json({error, message: error.message}) }
Catch(r, message) ==
    /\ Send(r, Failed(message))
    /\ pc' = [pc EXCEPT ![r] = "done"]

(* ------------------------------ actions -------------------------------- *)

Init ==
    /\ pc = [r \in ReqIds |-> "idle"]
    /\ req = [r \in ReqIds |-> NoRequest]
    /\ pdfData = [r \in ReqIds |-> <<>>]
    /\ responses = [r \in ReqIds |-> <<>>]
    /\ fetchCalls = [r \in ReqIds |-> 0]
    /\ parseCalls = [r \in ReqIds |-> 0]
    /\ visited = [r \in ReqIds |-> <<>>]
    /\ extracted = [r \in ReqIds |-> <<>>]

\* A handler whose pdfUrl check answers 400 and, for want of a return, goes
\* on to call axios.get.
AcceptWithoutReturn(r, q) ==
    /\ pc[r] = "idle"
    /\ req' = [req EXCEPT ![r] = q]
    /\ IF q.pdfUrl = <<>> \/ q.pdfUrl[1] = ""
       THEN Send(r, MissingPdfUrl)
       ELSE responses' = responses
    /\ fetchCalls' = [fetchCalls EXCEPT ![r] = @ + 1]
    /\ pc' = [pc EXCEPT ![r] = "fetching"]
    /\ UNCHANGED <<pdfData, parseCalls, visited, extracted>>

\* An extraction handler up to its first await: the pdfUrl check, then
\* axios.get is called.
Accept(r, q) ==
    /\ pc[r] = "idle"
    /\ req' = [req EXCEPT ![r] = q]
    /\ IF Missing(q.pdfUrl)
       THEN /\ Send(r, MissingPdfUrl)
            /\ pc' = [pc EXCEPT ![r] = "done"]
            /\ fetchCalls' = fetchCalls
       ELSE /\ fetchCalls' = [fetchCalls EXCEPT ![r] = @ + 1]
            /\ pc' = [pc EXCEPT ![r] = "fetching"]
            /\ responses' = responses
    /\ UNCHANGED <<pdfData, parseCalls, visited, extracted>>

\* GET /api/pdf-text, to the await of axios.get.
PdfTextHandler(r, q) == q.route = PdfTextRoute /\ Accept(r, q)

\* GET /api/pdf-text-all, to the await of axios.get.
PdfTextAllHandler(r, q) == q.route = PdfTextAllRoute /\ Accept(r, q)

\* GET /api/pdf-text of part_000, to the await of axios.get.
PdfTextHandler0(r, q) == q.route = PdfTextRoute0 /\ Accept(r, q)

\* axios.get rejects (network error, non-2xx status, timeout): the
\* handler's catch answers.
AxiosRejected(r) ==
    /\ pc[r] = "fetching"
    /\ Catch(r, FetchError)
    /\ UNCHANGED <<req, pdfData, fetchCalls, parseCalls, visited, extracted>>

\* A handler that calls pdfParse before it validates min and max.
PdfTextFetchedParseFirst(r, d) ==
    /\ pc[r] = "fetching"
    /\ req[r].route = PdfTextRoute
    /\ pdfData' = [pdfData EXCEPT ![r] = <<d>>]
    /\ parseCalls' = [parseCalls EXCEPT ![r] = @ + 1]
    /\ pc' = [pc EXCEPT ![r] = "parsing"]
    /\ UNCHANGED <<req, responses, fetchCalls, visited, extracted>>

\* GET /api/pdf-text from the fetched bytes to the await of pdfParse: min
\* and max are read and validated, then pdfParse is called.
PdfTextFetched(r, d) ==
    /\ pc[r] = "fetching"
    /\ req[r].route = PdfTextRoute
    /\ pdfData' = [pdfData EXCEPT ![r] = <<d>>]
    /\ LET max == MaxOf(req[r])
           min == MinOf(req[r])
       IN  IF MaxInvalid(max)
           THEN Catch(r, "Invalid max page value") /\ parseCalls' = parseCalls
           ELSE IF MinInvalid(min, max)
           THEN Catch(r, "Invalid min page value") /\ parseCalls' = parseCalls
           ELSE /\ parseCalls' = [parseCalls EXCEPT ![r] = @ + 1]
                /\ pc' = [pc EXCEPT ![r] = "parsing"]
                /\ responses' = responses
    /\ UNCHANGED <<req, fetchCalls, visited, extracted>>

\* GET /api/pdf-text once pdfParse settles: the text is trimmed and sent,
\* or the parser's error is caught.
PdfTextParsed(r) ==
    /\ pc[r] = "parsing"
    /\ req[r].route = PdfTextRoute
    /\ LET d == pdfData[r][1]
           max == MaxOf(req[r])[1]
           min == MinOf(req[r])[1]
           n == PageCount(d, max)
       IN  IF ~d.parsable
           THEN Catch(r, ParseError) /\ UNCHANGED <<visited, extracted>>
           ELSE /\ visited' = [visited EXCEPT ![r] = [i \in 1..n |-> i]]
                /\ extracted' = [extracted EXCEPT
                                   ![r] = SelectSeq([i \in 1..n |-> i], LAMBDA i : ~(i < min))]
                /\ Send(r, Ok(Trim(PdfParseRange(d, min, max))))
                /\ pc' = [pc EXCEPT ![r] = "done"]
    /\ UNCHANGED <<req, pdfData, fetchCalls, parseCalls>>

\* GET /api/pdf-text-all, and /api/pdf-text of part_000, from the fetched
\* bytes to the await of pdfParse.
WholeFetched(r, d) ==
    /\ pc[r] = "fetching"
    /\ pdfData' = [pdfData EXCEPT ![r] = <<d>>]
    /\ parseCalls' = [parseCalls EXCEPT ![r] = @ + 1]
    /\ pc' = [pc EXCEPT ![r] = "parsing"]
    /\ UNCHANGED <<req, responses, fetchCalls, visited, extracted>>

PdfTextAllFetched(r, d) == req[r].route = PdfTextAllRoute /\ WholeFetched(r, d)

PdfTextFetched0(r, d) == req[r].route = PdfTextRoute0 /\ WholeFetched(r, d)

\* The same two handlers once pdfParse settles.
WholeParsed(r) ==
    /\ pc[r] = "parsing"
    /\ LET d == pdfData[r][1]
           n == PageCount(d, 0)
       IN  IF ~d.parsable
           THEN Catch(r, ParseError) /\ UNCHANGED <<visited, extracted>>
           ELSE /\ visited' = [visited EXCEPT ![r] = [i \in 1..n |-> i]]
                /\ extracted' = [extracted EXCEPT ![r] = [i \in 1..n |-> i]]
                /\ Send(r, Ok(Trim(PdfParseAll(d))))
                /\ pc' = [pc EXCEPT ![r] = "done"]
    /\ UNCHANGED <<req, pdfData, fetchCalls, parseCalls>>

PdfTextAllParsed(r) == req[r].route = PdfTextAllRoute /\ WholeParsed(r)

PdfTextParsed0(r) == req[r].route = PdfTextRoute0 /\ WholeParsed(r)

\* A health handler that runs only once no fetch or parse is pending, as
\* it would behind handlers that block.
HealthHandlerAfterPending(r) ==
    /\ pc[r] = "idle"
    /\ \A s \in ReqIds : pc[s] \notin {"fetching", "parsing"}
    /\ req' = [req EXCEPT ![r] = [NoRequest EXCEPT !.route = HealthRoute]]
    /\ Send(r, HealthOk)
    /\ pc' = [pc EXCEPT ![r] = "done"]
    /\ UNCHANGED <<pdfData, fetchCalls, parseCalls, visited, extracted>>

\* GET /api/health: no await, the answer is sent in the same turn.
HealthHandler(r) ==
    /\ pc[r] = "idle"
    /\ req' = [req EXCEPT ![r] = [NoRequest EXCEPT !.route = HealthRoute]]
    /\ Send(r, HealthOk)
    /\ pc' = [pc EXCEPT ![r] = "done"]
    /\ UNCHANGED <<pdfData, fetchCalls, parseCalls, visited, extracted>>

\* The server over the request slots R, with requests from Q and fetched
\* documents from D.
Server(R, Q, D) ==
    \E r \in R :
        \/ \E q \in Q : PdfTextHandler(r, q)
        \/ \E q \in Q : PdfTextAllHandler(r, q)
        \/ \E q \in Q : PdfTextHandler0(r, q)
        \/ AxiosRejected(r)
        \/ \E d \in D : PdfTextFetched(r, d)
        \/ PdfTextParsed(r)
        \/ \E d \in D : PdfTextAllFetched(r, d)
        \/ PdfTextAllParsed(r)
        \/ \E d \in D : PdfTextFetched0(r, d)
        \/ PdfTextParsed0(r)
        \/ HealthHandler(r)

\* Concurrent requests, over a few requests and documents.
Next == Server(ReqIds, SmallQueries, SmallDocs)

Spec == Init /\ [][Next]_vars

\* One request at a time, over every request and document of the bounds.
NextRange == Server({1}, Queries, Docs)

SpecRange == Init /\ [][NextRange]_vars

(* ------------------------ reading a request ---------------------------- *)

\* What a request asks for, read from its query alone: the number a
\* parameter writes, and the documented default when it is omitted.
Asked(param, default) == IF param = <<>> THEN <<default>> ELSE ParseInt(param)

AskedMin(r) == Asked(req[r].min, 1)
AskedMax(r) == Asked(req[r].max, 100)

\* The range the handler works with: an omitted, non-numeric or zero
\* parameter counts as its default.
Effective(param, default) ==
    LET n == ParseInt(param) IN IF n = <<>> \/ n = <<0>> THEN default ELSE n[1]

EffectiveMin(r) == Effective(req[r].min, 1)
EffectiveMax(r) == Effective(req[r].max, 100)

HasPdfUrl(r) == req[r].pdfUrl \notin {<<>>, <<"">>}

Ranged(r) == req[r].route = PdfTextRoute /\ HasPdfUrl(r)

Fetched(r) == pdfData[r] # <<>>

Done(r) == pc[r] = "done"

\* The fragments of page p of document d, joined by single spaces.
Fragments(d, p) == Join([i \in 1..Len(d.pages[p]) |-> d.pages[p][i].str], <<" ">>)

\* The texts of pages from..to of d, each after the separator sep.
RECURSIVE PagesText(_, _, _, _)
PagesText(d, from, to, sep) ==
    IF from > to THEN <<>>
    ELSE sep \o Fragments(d, from) \o PagesText(d, from + 1, to, sep)

Least(a, b) == IF a < b THEN a ELSE b

Range(from, to) == [i \in 1..(to - from + 1) |-> from + i - 1]

(* C1: a request to an extraction route whose pdfUrl is missing or empty is
   answered 400 with an error string, whatever its min and max, and neither
   a fetch nor a parse is started for it. *)
C1_MissingPdfUrlIs400 ==
    \A r \in ReqIds :
        (req[r].route \in ExtractionRoutes /\ req[r].pdfUrl \in {<<>>, <<"">>})
            => /\ pc[r] = "done"
               /\ responses[r] = <<[status |-> 400,
                                    body |-> [error |-> "Missing pdfUrl parameter"]]>>
               /\ fetchCalls[r] = 0
               /\ parseCalls[r] = 0
               /\ pdfData[r] = <<>>

\* C1's case: an empty pdfUrl with a min and a max, answered.
C1_Witness ==
    /\ req[1].route = PdfTextRoute
    /\ req[1].pdfUrl = <<"">>
    /\ req[1].min = <<Decimal(2)>>
    /\ req[1].max = <<Decimal(1)>>
    /\ Len(responses[1]) = 1

(* C2 as claimed: a request to /api/pdf-text with a pdfUrl whose min is
   greater than its max (max 100 when omitted) is answered 500 with message
   "Invalid min page value", whatever the outcome of the fetch. *)
C2_MinAboveMaxWhateverTheFetch ==
    \A r \in ReqIds :
        (/\ Ranged(r) /\ Done(r)
         /\ AskedMin(r) # NaN /\ AskedMax(r) # NaN
         /\ AskedMin(r)[1] > AskedMax(r)[1])
            => responses[r] = <<Failed("Invalid min page value")>>

(* C2 amended: a request to /api/pdf-text with a pdfUrl whose fetch
   succeeded, whose max (100 when omitted, not numeric or 0) is at least 1
   and whose min is greater than that max, is answered 500 with message
   "Invalid min page value". *)
C2_MinAboveMaxAfterFetch ==
    \A r \in ReqIds :
        (/\ Ranged(r) /\ Fetched(r)
         /\ EffectiveMax(r) >= 1
         /\ EffectiveMin(r) > EffectiveMax(r))
            => /\ Done(r)
               /\ responses[r] = <<Failed("Invalid min page value")>>

\* C2's case: max omitted, min above the default of 100, fetched.
C2_Witness ==
    /\ Ranged(1) /\ Fetched(1)
    /\ req[1].max = <<>>
    /\ req[1].min = <<Decimal(101)>>
    /\ Len(responses[1]) = 1

(* C3: a request to /api/pdf-text with a pdfUrl whose max is less than 1 or
   not numeric is answered 500 with message "Invalid max page value"
   (stated for the requests whose fetch succeeded). *)
C3_MaxBelowOneOrNotNumeric ==
    \A r \in ReqIds :
        (/\ Ranged(r) /\ Fetched(r) /\ Done(r)
         /\ req[r].max # <<>>
         /\ (ParseInt(req[r].max) = NaN \/ ParseInt(req[r].max)[1] < 1))
            => responses[r] = <<Failed("Invalid max page value")>>

\* A request of /api/pdf-text that failed the validation of min or max.
RangeRejected(r) ==
    /\ Ranged(r) /\ Fetched(r) /\ Done(r)
    /\ \/ EffectiveMax(r) < 1
       \/ EffectiveMin(r) < 1
       \/ EffectiveMin(r) > EffectiveMax(r)

(* C4 as claimed: a request to /api/pdf-text that fails range validation is
   answered with status 400. *)
C4_RangeRejectedIs400 ==
    \A r \in ReqIds :
        RangeRejected(r) => Len(responses[r]) = 1 /\ responses[r][1].status = 400

(* C4 amended: a request to /api/pdf-text that fails range validation is
   answered with status 500, error "Failed to process PDF" and the
   validation's message; 400 answers only a missing pdfUrl. *)
C4_RangeRejectedIs500 ==
    /\ \A r \in ReqIds :
          RangeRejected(r)
              => /\ Len(responses[r]) = 1
                 /\ responses[r][1].status = 500
                 /\ responses[r][1].body.error = "Failed to process PDF"
                 /\ responses[r][1].body.message
                        \in {"Invalid max page value", "Invalid min page value"}
    /\ \A r \in ReqIds :
          (Len(responses[r]) = 1 /\ responses[r][1].status = 400) => ~HasPdfUrl(r)

\* C4's case: a negative max, fetched and answered.
C4_Witness ==
    /\ RangeRejected(1)
    /\ req[1].max = <<Decimal(-1)>>
    /\ Len(responses[1]) = 1

(* C5: with min = max = k, k >= 1, on a parsable document of at least k
   pages, /api/pdf-text answers 200 with the trimmed text of page k alone,
   and page k is the only page whose text is extracted. *)
C5_SinglePage ==
    \A r \in ReqIds : \A k \in 1..(MaxPages + 1) :
        (/\ Ranged(r) /\ Fetched(r) /\ Done(r)
         /\ req[r].min = <<Decimal(k)>> /\ req[r].max = <<Decimal(k)>>
         /\ pdfData[r][1].parsable
         /\ Len(pdfData[r][1].pages) >= k)
            => /\ responses[r] = <<[status |-> 200,
                                    body |-> [text |-> Trim(Fragments(pdfData[r][1], k))]]>>
               /\ extracted[r] = <<k>>

\* C5's case: page 2 of three pages that all hold text.
C5_Witness ==
    /\ Ranged(1) /\ Fetched(1) /\ Done(1)
    /\ req[1].min = <<Decimal(2)>> /\ req[1].max = <<Decimal(2)>>
    /\ pdfData[1][1].parsable
    /\ Len(pdfData[1][1].pages) = 3
    /\ \A p \in 1..3 : Trim(Fragments(pdfData[1][1], p)) # <<>>
    /\ pdfData[1][1].pages[1] # pdfData[1][1].pages[2]
    /\ responses[1][1].status = 200

(* C6: for a parsable document of N pages, /api/pdf-text with min = 1 and
   max = N returns the same text as /api/pdf-text-all for that document. *)
C6_FullRangeEqualsAll ==
    \A r \in ReqIds : \A s \in ReqIds :
        (/\ Ranged(r) /\ Fetched(r) /\ Done(r)
         /\ req[s].route = PdfTextAllRoute /\ Fetched(s) /\ Done(s)
         /\ pdfData[r] = pdfData[s]
         /\ pdfData[r][1].parsable
         /\ ParseInt(req[r].min) = <<1>>
         /\ ParseInt(req[r].max) = <<Len(pdfData[r][1].pages)>>)
            => /\ responses[r][1].status = 200
               /\ responses[s][1].status = 200
               /\ responses[r][1].body.text = responses[s][1].body.text

(* C7: in every state, whatever requests are pending in their fetch or
   parse, a health request is accepted and answered 200 {status: "ok"} in
   the same step, an extraction request is accepted, and a pending request's
   fetch or parse can complete: no request waits for another. *)
C7_NothingWaitsForAPendingRequest ==
    \A r \in ReqIds :
        /\ pc[r] = "idle"
              => /\ ENABLED (HealthHandler(r) /\ responses'[r] = <<HealthOk>>
                                /\ pc'[r] = "done")
                 /\ \A q \in SmallQueries : ENABLED Accept(r, q)
        /\ req[r].route = HealthRoute
              => (pc[r] = "done" /\ responses[r] = <<HealthOk>> /\ fetchCalls[r] = 0)
        /\ pc[r] = "fetching"
              => /\ ENABLED AxiosRejected(r)
                 /\ \A d \in SmallDocs : ENABLED (PdfTextFetched(r, d)
                                                    \/ WholeFetched(r, d))
        /\ pc[r] = "parsing" => ENABLED (PdfTextParsed(r) \/ WholeParsed(r))

\* C7's case: a health request answered while another request is in its
\* fetch.
C7_Witness ==
    /\ pc[1] = "fetching"
    /\ req[2].route = HealthRoute
    /\ responses[2] = <<HealthOk>>

\* A request of /api/pdf-text with a valid range, answered after its parse.
ValidRangeDone(r) ==
    /\ Ranged(r) /\ Fetched(r) /\ Done(r)
    /\ pdfData[r][1].parsable
    /\ AskedMin(r) # NaN /\ AskedMax(r) # NaN
    /\ 1 <= AskedMin(r)[1] /\ AskedMin(r)[1] <= AskedMax(r)[1]

(* C8 as claimed: for a valid range and a parsable document of N pages the
   text of /api/pdf-text is the trimmed concatenation, in page order, of
   the texts of the pages min..minimum(max, N). *)
C8_PlainConcatenation ==
    \A r \in ReqIds :
        ValidRangeDone(r)
            => LET d == pdfData[r][1]
                   last == Least(AskedMax(r)[1], Len(d.pages))
               IN  responses[r]
                       = <<Ok(Trim(PagesText(d, AskedMin(r)[1], last, <<>>)))>>

(* C8 amended: for a valid range and a parsable document of N pages,
   /api/pdf-text answers 200 and its text is the trimmed concatenation, in
   page order, of the texts of the pages min..minimum(max, N), each preceded
   by the parser's separator of two line breaks; the pages 1..minimum(max, N)
   are the ones processed, and those below min contribute no text. *)
C8_SeparatedConcatenation ==
    \A r \in ReqIds :
        ValidRangeDone(r)
            => LET d == pdfData[r][1]
                   last == Least(AskedMax(r)[1], Len(d.pages))
               IN  /\ responses[r]
                          = <<[status |-> 200,
                               body |-> [text |-> Trim(PagesText(d, AskedMin(r)[1], last,
                                                                 <<"\n", "\n">>))]]>>
                   /\ visited[r] = Range(1, last)
                   /\ extracted[r] = Range(AskedMin(r)[1], last)

\* C8's case: a range that starts after page 1 and ends beyond the last of
\* three pages that all hold text.
C8_Witness ==
    /\ ValidRangeDone(1)
    /\ AskedMin(1) = <<2>>
    /\ AskedMax(1) = <<4>>
    /\ Len(pdfData[1][1].pages) = 3
    /\ \A p \in 1..3 : Trim(Fragments(pdfData[1][1], p)) # <<>>

(* C9: in /api/pdf-text the parser is invoked only after the fetch has
   succeeded and both validations have passed; a request whose validation
   fails never invokes the parser and renders no page. *)
C9_ValidationBeforeParsing ==
    \A r \in ReqIds :
        req[r].route = PdfTextRoute
            => /\ parseCalls[r] > 0
                     => /\ Fetched(r)
                        /\ 1 <= EffectiveMin(r)
                        /\ EffectiveMin(r) <= EffectiveMax(r)
               /\ RangeRejected(r)
                     => /\ parseCalls[r] = 0
                        /\ visited[r] = <<>>
                        /\ extracted[r] = <<>>
               /\ parseCalls[r] <= 1

\* C9's case: a fetched request with min above max, answered.
C9_Witness ==
    /\ RangeRejected(1)
    /\ req[1].min = <<Decimal(3)>>
    /\ req[1].max = <<Decimal(2)>>
    /\ responses[1] = <<Failed("Invalid min page value")>>

\* The three shapes of an extraction route's response.
WellFormed(response) ==
    \/ response.status = 200 /\ DOMAIN response.body = {"text"}
    \/ response.status = 400 /\ DOMAIN response.body = {"error"}
    \/ response.status = 500 /\ DOMAIN response.body = {"error", "message"}

(* C10: a request to an extraction route has no response while its fetch or
   parse is pending and exactly one once it is done; the response is 200
   with a text, 400 with an error, or 500 with an error and a message, and a
   response other than 200 carries no text. *)
C10_ExactlyOneResponse ==
    \A r \in ReqIds :
        req[r].route \in ExtractionRoutes
            => /\ pc[r] \in {"fetching", "parsing"} => responses[r] = <<>>
               /\ pc[r] = "done" => Len(responses[r]) = 1
               /\ \A i \in 1..Len(responses[r]) :
                      /\ WellFormed(responses[r][i])
                      /\ responses[r][i].status # 200
                            => "text" \notin DOMAIN responses[r][i].body

\* C10's case: a parse failure, answered 500.
C10_Witness ==
    /\ req[1].route = PdfTextAllRoute
    /\ Fetched(1) /\ ~pdfData[1][1].parsable
    /\ responses[1] = <<Failed(ParseError)>>

====
